---- MODULE Spec2Model ----
(***************************************************************************)
(* Window::SystemMediaControlsManager                                      *)
(* (Telegram/SourceFiles/window/system_media_controls_manager.cpp).        *)
(*                                                                         *)
(* The manager owns a platform controls widget (_controls), a lifetime     *)
(* holding the subscriptions made in the constructor (_lifetime), a second *)
(* lifetime holding the pending thumbnail fetch (_lifetimeDownload) and a  *)
(* list of media views (_cachedMediaView).  Every step of the model is one *)
(* event of the environment (player, lock, downloader, widget) together    *)
(* with everything the subscribed handlers do in response to it.           *)
(* widgetCalls and playerCalls hold the calls made during the last step.   *)
(***************************************************************************)
EXTENDS Integers, Sequences, FiniteSets

VARIABLES
    inited,             \* result of _controls->init(parent)
    alive,              \* the manager has not been destroyed
    seekingSupported,   \* what _controls->seekingSupported() reports
    subs,               \* subscriptions held by _lifetime
    locked,             \* Core::App() passcode lock state
    current,            \* mediaPlayer->current(type): a document or NoTrack
    resolved,           \* documents whose view->thumbnail() is non-null
    statusLast,         \* memory of distinct_until_changed, status stream
    positionLast,       \* memory of distinct_until_changed, position stream
    lengthLast,         \* memory of distinct_until_changed, length stream
    cachedMediaView,    \* _cachedMediaView
    lifetimeDownload,   \* _lifetimeDownload: the view of each pending fetch
    wStatus,            \* value most recently given to setPlaybackStatus
    prevMapped,         \* history: mapped status of the previous Song update
    lastRefresh,        \* history: track of the most recent metadata refresh
    lockDisabled,       \* history: the lock handler disabled the widget and
                        \* the application has not been unlocked since
    ev,                 \* the event handled by the last step
    widgetCalls,        \* calls on _controls made by the last step
    playerCalls         \* calls on mediaPlayer made by the last step

vars == <<inited, alive, seekingSupported, subs, locked, current, resolved,
          statusLast, positionLast, lengthLast, cachedMediaView,
          lifetimeDownload, wStatus, prevMapped, lastRefresh, lockDisabled,
          ev, widgetCalls, playerCalls>>

(***************************************************************************)
(* Bounds of the model.                                                    *)
(***************************************************************************)
MaxViews == 2       \* longest _cachedMediaView explored

(***************************************************************************)
(* Domains.                                                                *)
(***************************************************************************)
Types == {"Song", "Voice"}
type == "Song"
NoTrack == "none"
CoverDocs == {"d1"}
Docs == CoverDocs \cup {"d2"}
Phases == {"Stopped", "Stopping", "Pausing", "Paused", "Playing", "Resuming"}
Commands == {"PlayPause", "Play", "Pause", "Next", "Previous", "Stop"}
Positions == {0, 1}
Lengths == {1, 2}
Progress == {0, 1}
Unset == "unset"
NoValue == <<>>

\* kind: the event; type: its track type; arg: the phase of a Song update or
\* the command; num: the seek progress; session: maybeActiveSession();
\* position, length: those of a Song update; next, previous: what
\* nextAvailable(type) and previousAvailable(type) return at a Song start
Event(kind, t, arg, num, session) ==
    [kind |-> kind, type |-> t, arg |-> arg, num |-> num,
     session |-> session, position |-> 0, length |-> 0,
     next |-> FALSE, previous |-> FALSE]

UpdateEvent(t, state, position, length) ==
    IF t = type
        THEN [Event("update", t, state, 0, FALSE)
                EXCEPT !.position = position, !.length = length]
        ELSE Event("update", t, "-", 0, FALSE)

StartEvent(t, nextAvailable, previousAvailable) ==
    IF t = type
        THEN [Event("startsPlay", t, "-", 0, FALSE)
                EXCEPT !.next = nextAvailable, !.previous = previousAvailable]
        ELSE Event("startsPlay", t, "-", 0, FALSE)

(***************************************************************************)
(* Collaborators.                                                          *)
(***************************************************************************)
IsStoppedOrStopping(state) == state \in {"Stopped", "Stopping"}

IsPausedOrPausing(state) == state \in {"Pausing", "Paused"}

isSongWithCover(document) == document \in CoverDocs

\* Ui::Text::FormatSongNameFor(document).composedName(): <<title, performer>>
composedName(document) ==
    CASE document = "d1" -> <<"title1", "performer1">>
      [] document = "d2" -> <<"title2", "performer2">>

thumbnail(view) == view \in resolved

(***************************************************************************)
(* The constructor.                                                        *)
(***************************************************************************)
\* the seek subscription made without asking seekingSupported()
SubscriptionsUnguarded(seek) ==
    {"status", "playStop", "refresh", "command", "lock", "seek"}
        \cup (IF seek THEN {"position", "length"} ELSE {})

Subscriptions(seek) ==
    {"status", "playStop", "refresh", "command", "lock"}
        \cup (IF seek THEN {"position", "length", "seek"} ELSE {})

\* the constructor without the early return of lines 36-39
ConstructorSubsNoReturn(ok, seek) == Subscriptions(seek)

ConstructorSubs(ok, seek) == IF ok THEN Subscriptions(seek) ELSE {}

\* the lock filter without the maybeActiveSession() test
LockValueCallsNoSession(isLocked, session) ==
    IF isLocked THEN << <<"setEnabled", FALSE>> >> ELSE <<>>

\* passcodeLockValue() starts with the current value
LockValueCalls(isLocked, session) ==
    IF isLocked /\ session THEN << <<"setEnabled", FALSE>> >> ELSE <<>>

ConstructorCalls(ok, seek, isLocked, session) ==
    << <<"init">> >> \o
    (IF ok
        THEN << <<"seekingSupported">>, <<"commandRequests">>,
                <<"seekingSupported">> >>
             \o (IF seek THEN << <<"seekRequests">> >> ELSE <<>>)
             \o LockValueCalls(isLocked, session)
        ELSE <<>>)

Init ==
    /\ inited \in BOOLEAN
    /\ alive = TRUE
    /\ seekingSupported \in BOOLEAN
    /\ locked \in BOOLEAN
    /\ subs = ConstructorSubs(inited, seekingSupported)
    /\ current = NoTrack
    /\ resolved = {}
    /\ statusLast = NoValue
    /\ positionLast = NoValue
    /\ lengthLast = NoValue
    /\ cachedMediaView = <<>>
    /\ lifetimeDownload = <<>>
    /\ wStatus = Unset
    /\ prevMapped = NoValue
    /\ lastRefresh = NoTrack
    /\ \E session \in BOOLEAN :
        /\ ev = Event("construct", type, "-", 0, session)
        /\ widgetCalls =
            ConstructorCalls(inited, seekingSupported, locked, session)
        /\ lockDisabled = (inited /\ locked /\ session)
    /\ playerCalls = <<>>

(***************************************************************************)
(* mediaPlayer->updatedNotifier(): status, position and length streams.    *)
(***************************************************************************)
\* a filter letting every track type through
trackFilterAll(t) == TRUE

trackFilter(t) == t = type

MapStatus(state) ==
    IF IsStoppedOrStopping(state) THEN "Stopped"
    ELSE IF IsPausedOrPausing(state) THEN "Paused"
    ELSE "Playing"

\* rpl::distinct_until_changed: a value passes if it differs from the memory
DistinctUntilChanged(memory, value) == memory # <<value>>

\* deduplication against the value last pushed to the widget instead
StatusPassesAgainstPushed(t, state) ==
    /\ "status" \in subs
    /\ trackFilter(t)
    /\ wStatus # MapStatus(state)

StatusPasses(t, state) ==
    /\ "status" \in subs
    /\ trackFilter(t)
    /\ DistinctUntilChanged(statusLast, MapStatus(state))

PositionPasses(t, position) ==
    /\ "position" \in subs
    /\ trackFilter(t)
    /\ DistinctUntilChanged(positionLast, position)

\* the length stream without distinct_until_changed
LengthPassesAlways(t, length) ==
    /\ "length" \in subs
    /\ trackFilter(t)

LengthPasses(t, length) ==
    /\ "length" \in subs
    /\ trackFilter(t)
    /\ DistinctUntilChanged(lengthLast, length)

UpdateCalls(t, state, position, length) ==
    (IF StatusPasses(t, state)
        THEN << <<"setPlaybackStatus", MapStatus(state)>> >> ELSE <<>>)
    \o (IF PositionPasses(t, position)
        THEN << <<"setPosition", position>> >> ELSE <<>>)
    \o (IF LengthPasses(t, length)
        THEN << <<"setDuration", length>> >> ELSE <<>>)

PlayerUpdate(t, state, position, length) ==
    /\ ev' = UpdateEvent(t, state, position, length)
    /\ widgetCalls' = UpdateCalls(t, state, position, length)
    /\ playerCalls' = <<>>
    /\ statusLast' = IF "status" \in subs /\ trackFilter(t)
                        THEN <<MapStatus(state)>> ELSE statusLast
    /\ positionLast' = IF "position" \in subs /\ trackFilter(t)
                        THEN <<position>> ELSE positionLast
    /\ lengthLast' = IF "length" \in subs /\ trackFilter(t)
                        THEN <<length>> ELSE lengthLast
    /\ wStatus' = IF StatusPasses(t, state) THEN MapStatus(state) ELSE wStatus
    /\ prevMapped' = IF "status" \in subs /\ t = type
                        THEN <<MapStatus(state)>> ELSE prevMapped
    /\ UNCHANGED <<lockDisabled,
                   inited, alive, seekingSupported, subs, locked, current,
                   resolved, cachedMediaView, lifetimeDownload, lastRefresh>>

(***************************************************************************)
(* mediaPlayer->stops(type) and mediaPlayer->startsPlay(type).             *)
(***************************************************************************)
\* nextAvailable and previousAvailable given to the wrong setters
PlayStopCallsSwapped(audio, nextAvailable, previousAvailable) ==
    << <<"setEnabled", audio>> >> \o
    (IF audio
        THEN << <<"setIsNextEnabled", previousAvailable>>,
                <<"setIsPreviousEnabled", nextAvailable>>,
                <<"setIsPlayPauseEnabled", TRUE>>,
                <<"setIsStopEnabled", TRUE>>,
                <<"setPlaybackStatus", "Playing">>,
                <<"updateDisplay">> >>
        ELSE << <<"clearMetadata">> >>)

PlayStopCalls(audio, nextAvailable, previousAvailable) ==
    << <<"setEnabled", audio>> >> \o
    (IF audio
        THEN << <<"setIsNextEnabled", nextAvailable>>,
                <<"setIsPreviousEnabled", previousAvailable>>,
                <<"setIsPlayPauseEnabled", TRUE>>,
                <<"setIsStopEnabled", TRUE>>,
                <<"setPlaybackStatus", "Playing">>,
                <<"updateDisplay">> >>
        ELSE << <<"clearMetadata">> >>)

\* the handler without _lifetimeDownload.destroy()
PlayStopHandlerKeepsFetch(audio, nextAvailable, previousAvailable) ==
    /\ widgetCalls' = PlayStopCalls(audio, nextAvailable, previousAvailable)
    /\ wStatus' = IF audio THEN "Playing" ELSE wStatus
    /\ cachedMediaView' = IF audio THEN cachedMediaView ELSE <<>>
    /\ lifetimeDownload' = lifetimeDownload

PlayStopHandler(audio, nextAvailable, previousAvailable) ==
    /\ widgetCalls' = PlayStopCalls(audio, nextAvailable, previousAvailable)
    /\ wStatus' = IF audio THEN "Playing" ELSE wStatus
    /\ cachedMediaView' = IF audio THEN cachedMediaView ELSE <<>>
    /\ lifetimeDownload' = <<>>

Stops(t) ==
    /\ ev' = Event("stops", t, "-", 0, FALSE)
    /\ playerCalls' = <<>>
    /\ IF "playStop" \in subs /\ t = type
          THEN PlayStopHandler(FALSE, FALSE, FALSE)
          ELSE /\ widgetCalls' = <<>>
               /\ UNCHANGED <<wStatus, cachedMediaView, lifetimeDownload>>
    /\ UNCHANGED <<lockDisabled,
                   inited, alive, seekingSupported, subs, locked, current,
                   resolved, statusLast, positionLast, lengthLast,
                   prevMapped, lastRefresh>>

StartsPlay(t, nextAvailable, previousAvailable) ==
    /\ ev' = StartEvent(t, nextAvailable, previousAvailable)
    /\ playerCalls' = <<>>
    /\ IF "playStop" \in subs /\ t = type
          THEN PlayStopHandler(TRUE, nextAvailable, previousAvailable)
          ELSE /\ widgetCalls' = <<>>
               /\ UNCHANGED <<wStatus, cachedMediaView, lifetimeDownload>>
    /\ UNCHANGED <<lockDisabled,
                   inited, alive, seekingSupported, subs, locked, current,
                   resolved, statusLast, positionLast, lengthLast,
                   prevMapped, lastRefresh>>

(***************************************************************************)
(* Track changes and unlocks: the merged metadata refresh.                 *)
(***************************************************************************)
\* trackChangedNotifier() filtered by type: the values reaching the merge
trackChanged(audioType) == IF audioType = type THEN <<audioType>> ELSE <<>>

\* the unlock filter without the mediaPlayer->current(type) test
unlockedNoCurrentTest(isLocked, cur) ==
    IF ~isLocked THEN <<type>> ELSE <<>>

\* the unlock filter with the lock test inverted
unlockedInverted(isLocked, cur) ==
    IF isLocked /\ cur # NoTrack THEN <<type>> ELSE <<>>

\* passcodeLockChanges() filtered and mapped: the values reaching the merge
unlocked(isLocked, cur) ==
    IF ~isLocked /\ cur # NoTrack THEN <<type>> ELSE <<>>

BeforeNextCalls == << <<"setEnabled", TRUE>>, <<"updateDisplay">> >>

\* the part of the handler after setTitle
ThumbnailCalls(document) ==
    IF isSongWithCover(document)
        THEN IF thumbnail(document)
                THEN << <<"setThumbnail", document>> >>
                ELSE << <<"clearThumbnail">> >>
        ELSE << <<"clearThumbnail">> >>

\* both inputs of the merge carry type, so cur is mediaPlayer->current(type)
RefreshCalls(cur) ==
    IF cur = NoTrack
        THEN <<>>
        ELSE << <<"setArtist", composedName(cur)[2]>>,
                <<"setTitle", composedName(cur)[1]>> >>
             \o ThumbnailCalls(cur)

RefreshViews(cur) ==
    IF cur # NoTrack /\ isSongWithCover(cur)
        THEN Append(cachedMediaView, cur)
        ELSE cachedMediaView

\* the handler without the destroy() of line 121
RefreshKeep(pending) == pending

\* _lifetimeDownload.destroy() at the start of the handler
RefreshDestroy(pending) == <<>>

RefreshDownload(cur) ==
    IF cur # NoTrack /\ isSongWithCover(cur) /\ ~thumbnail(cur)
        THEN Append(RefreshDestroy(lifetimeDownload), cur)
        ELSE RefreshDestroy(lifetimeDownload)

\* the enable and display refresh run after the handler, not before it
RefreshHandlerNextFirst(cur, before) ==
    /\ Len(RefreshViews(cur)) <= MaxViews
    /\ widgetCalls' = RefreshCalls(cur) \o before
    /\ cachedMediaView' = RefreshViews(cur)
    /\ lifetimeDownload' = RefreshDownload(cur)
    /\ lastRefresh' = IF cur # NoTrack THEN cur ELSE lastRefresh

\* start_with_next of the merge, run for one value of the merged stream
RefreshHandler(cur, before) ==
    /\ Len(RefreshViews(cur)) <= MaxViews
    /\ widgetCalls' = before \o RefreshCalls(cur)
    /\ cachedMediaView' = RefreshViews(cur)
    /\ lifetimeDownload' = RefreshDownload(cur)
    /\ lastRefresh' = IF cur # NoTrack THEN cur ELSE lastRefresh

TrackChanged(t, document) ==
    /\ ev' = Event("trackChanged", t, "-", 0, FALSE)
    /\ current' = IF t = type THEN document ELSE current
    /\ playerCalls' = <<>>
    /\ IF "refresh" \in subs /\ trackChanged(t) # <<>>
          THEN RefreshHandler(current', <<>>)
          ELSE /\ widgetCalls' = <<>>
               /\ UNCHANGED <<cachedMediaView, lifetimeDownload, lastRefresh>>
    /\ UNCHANGED <<lockDisabled,
                   inited, alive, seekingSupported, subs, locked, resolved,
                   statusLast, positionLast, lengthLast, wStatus, prevMapped>>

(***************************************************************************)
(* Core::App() passcode lock: passcodeLockChanges and passcodeLockValue.   *)
(***************************************************************************)
LockChange(session) ==
    /\ locked' = ~locked
    /\ ev' = Event("lock", type, "-", 0, session)
    /\ playerCalls' = <<>>
    /\ IF "refresh" \in subs /\ unlocked(locked', current) # <<>>
          THEN RefreshHandler(current, BeforeNextCalls)
          ELSE /\ widgetCalls' =
                    IF "lock" \in subs
                        THEN LockValueCalls(locked', session) ELSE <<>>
               /\ UNCHANGED <<cachedMediaView, lifetimeDownload, lastRefresh>>
    /\ lockDisabled' = ("lock" \in subs /\ locked' /\ session)
    /\ UNCHANGED <<inited, alive, seekingSupported, subs, current, resolved,
                   statusLast, positionLast, lengthLast, wStatus, prevMapped>>

(***************************************************************************)
(* Thumbnail loading and session().downloaderTaskFinished().               *)
(***************************************************************************)
ThumbnailLoaded(document) ==
    /\ document \in CoverDocs \ resolved
    /\ resolved' = resolved \cup {document}
    /\ ev' = Event("thumbnailLoaded", type, "-", 0, FALSE)
    /\ widgetCalls' = <<>>
    /\ playerCalls' = <<>>
    /\ UNCHANGED <<lockDisabled,
                   inited, alive, seekingSupported, subs, locked, current,
                   statusLast, positionLast, lengthLast, cachedMediaView,
                   lifetimeDownload, wStatus, prevMapped, lastRefresh>>

\* the pending fetches whose view->thumbnail() is non-null, in order
Resolved(pending) == SelectSeq(pending, thumbnail)

\* the first such handler pushes the image and destroys _lifetimeDownload
DownloadCalls(pending) ==
    IF Resolved(pending) = <<>>
        THEN <<>>
        ELSE << <<"setThumbnail", Head(Resolved(pending))>> >>

\* the destroy() of line 146 placed outside the if
DownloadRemainingNone(pending) == <<>>

\* the download handler without the destroy() of line 146
DownloadRemainingKept(pending) == pending

DownloadRemaining(pending) ==
    IF Resolved(pending) = <<>> THEN pending ELSE <<>>

DownloaderTaskFinished ==
    /\ ev' = Event("downloadFinished", type, "-", 0, FALSE)
    /\ widgetCalls' = DownloadCalls(lifetimeDownload)
    /\ lifetimeDownload' = DownloadRemaining(lifetimeDownload)
    /\ playerCalls' = <<>>
    /\ UNCHANGED <<lockDisabled,
                   inited, alive, seekingSupported, subs, locked, current,
                   resolved, statusLast, positionLast, lengthLast,
                   cachedMediaView, wStatus, prevMapped, lastRefresh>>

(***************************************************************************)
(* Widget requests: commandRequests() and seekRequests().                  *)
(***************************************************************************)
\* Next falling through to Pause
CommandCallCrossed(command) ==
    CASE command = "PlayPause" -> "playPause"
      [] command = "Play" -> "play"
      [] command = "Pause" -> "pause"
      [] command = "Next" -> "pause"
      [] command = "Previous" -> "previous"
      [] command = "Stop" -> "stop"

CommandCall(command) ==
    CASE command = "PlayPause" -> "playPause"
      [] command = "Play" -> "play"
      [] command = "Pause" -> "pause"
      [] command = "Next" -> "next"
      [] command = "Previous" -> "previous"
      [] command = "Stop" -> "stop"

CommandRequest(command) ==
    /\ ev' = Event("command", type, command, 0, FALSE)
    /\ widgetCalls' = <<>>
    /\ playerCalls' = IF "command" \in subs
                        THEN << <<CommandCall(command), type>> >> ELSE <<>>
    /\ UNCHANGED <<lockDisabled,
                   inited, alive, seekingSupported, subs, locked, current,
                   resolved, statusLast, positionLast, lengthLast,
                   cachedMediaView, lifetimeDownload, wStatus, prevMapped,
                   lastRefresh>>

SeekCalls(progress) ==
    IF "seek" \in subs
        THEN << <<"finishSeeking", type, progress>> >> ELSE <<>>

SeekRequest(progress) ==
    /\ ev' = Event("seek", type, "-", progress, FALSE)
    /\ widgetCalls' = <<>>
    /\ playerCalls' = SeekCalls(progress)
    /\ UNCHANGED <<lockDisabled,
                   inited, alive, seekingSupported, subs, locked, current,
                   resolved, statusLast, positionLast, lengthLast,
                   cachedMediaView, lifetimeDownload, wStatus, prevMapped,
                   lastRefresh>>

(***************************************************************************)
(* The destructor: every member, the two lifetimes included, is released.  *)
(***************************************************************************)
\* a destructor that leaves the subscriptions alive
DestroyLeaking ==
    /\ alive
    /\ alive' = FALSE
    /\ ev' = Event("destroy", type, "-", 0, FALSE)
    /\ widgetCalls' = <<>>
    /\ playerCalls' = <<>>
    /\ UNCHANGED <<lockDisabled,
                   inited, seekingSupported, subs, locked, current, resolved,
                   statusLast, positionLast, lengthLast, cachedMediaView,
                   lifetimeDownload, wStatus, prevMapped, lastRefresh>>

Destroy ==
    /\ alive
    /\ alive' = FALSE
    /\ subs' = {}
    /\ lifetimeDownload' = <<>>
    /\ cachedMediaView' = <<>>
    /\ ev' = Event("destroy", type, "-", 0, FALSE)
    /\ widgetCalls' = <<>>
    /\ playerCalls' = <<>>
    /\ statusLast' = NoValue
    /\ positionLast' = NoValue
    /\ lengthLast' = NoValue
    /\ wStatus' = Unset
    /\ prevMapped' = NoValue
    /\ lastRefresh' = NoTrack
    /\ lockDisabled' = FALSE
    /\ UNCHANGED <<inited, seekingSupported, locked, current, resolved>>

Next ==
    \/ \E t \in Types, state \in Phases, position \in Positions,
          length \in Lengths : PlayerUpdate(t, state, position, length)
    \/ \E t \in Types : Stops(t)
    \/ \E t \in Types, nextAvailable \in BOOLEAN,
          previousAvailable \in BOOLEAN :
            StartsPlay(t, nextAvailable, previousAvailable)
    \/ \E t \in Types, document \in Docs \cup {NoTrack} :
            TrackChanged(t, document)
    \/ \E session \in BOOLEAN : LockChange(session)
    \/ \E document \in Docs : ThumbnailLoaded(document)
    \/ DownloaderTaskFinished
    \/ \E command \in Commands : CommandRequest(command)
    \/ \E progress \in Progress : SeekRequest(progress)
    \/ Destroy

Spec == Init /\ [][Next]_vars

(***************************************************************************)
(* Properties.                                                             *)
(***************************************************************************)
Called(calls, method) == \E i \in 1..Len(calls) : calls[i][1] = method

CallsOf(calls, method) ==
    SelectSeq(calls, LAMBDA call : call[1] = method)

Live == inited /\ alive

\* C1: if init failed, the constructor installed no subscription, and the
\* only widget call ever made is the init call of the constructor; no
\* later event produces a widget call or a player call.
InitFailureInert ==
    ~inited =>
        /\ subs = {}
        /\ playerCalls = <<>>
        /\ widgetCalls =
            IF ev.kind = "construct" THEN << <<"init">> >> ELSE <<>>

InitFailureInertWitness ==
    /\ ~inited
    /\ alive
    /\ ev.kind = "startsPlay"
    /\ ev.type = type
    /\ current = "d1"

\* C2 as stated: a Song update calls setPlaybackStatus only with a value
\* that differs from the value most recently pushed to the widget.
StatusNeverRepeated ==
    [][(ev'.kind = "update" /\ Called(widgetCalls', "setPlaybackStatus"))
        => \A i \in 1..Len(widgetCalls') :
            widgetCalls'[i][1] = "setPlaybackStatus"
                => widgetCalls'[i][2] # wStatus]_vars

\* What the code does for C2: a Song update calls setPlaybackStatus exactly
\* when its mapped status differs from the mapped status of the previous
\* Song update (the first update is always pushed); the Playing pushed by
\* the playback-start handler is not seen by this deduplication.
StatusDedupStep ==
    (ev'.kind = "update" /\ ev'.type = type /\ "status" \in subs)
        => CallsOf(widgetCalls', "setPlaybackStatus") =
            IF prevMapped # <<MapStatus(ev'.arg)>>
                THEN << <<"setPlaybackStatus", MapStatus(ev'.arg)>> >>
                ELSE <<>>

StatusDedupAgainstPreviousUpdate == [][StatusDedupStep]_vars

StatusDedupWitness ==
    /\ Live
    /\ ev.kind = "update"
    /\ ev.type = type
    /\ ev.arg = "Pausing"
    /\ statusLast = <<"Paused">>
    /\ ~Called(widgetCalls, "setPlaybackStatus")

\* C3: a Song track change to a track whose cover is not resolved clears
\* the thumbnail in that step and leaves one pending fetch; a download
\* notification calls setThumbnail exactly when a fetch is pending and its
\* thumbnail is resolved, and that step destroys the fetch, so the fetch
\* delivers at most once and no later notification calls setThumbnail.
CoverFetchDeliversOnce ==
    [][/\ (/\ ev'.kind = "trackChanged"
           /\ ev'.type = type
           /\ "refresh" \in subs
           /\ current' \in CoverDocs
           /\ current' \notin resolved)
            => /\ widgetCalls'[Len(widgetCalls')] = <<"clearThumbnail">>
               /\ ~Called(widgetCalls', "setThumbnail")
               /\ lifetimeDownload' = <<current'>>
       /\ ev'.kind = "downloadFinished"
            => IF lifetimeDownload # <<>> /\ Head(lifetimeDownload) \in resolved
                THEN /\ widgetCalls' =
                            << <<"setThumbnail", Head(lifetimeDownload)>> >>
                     /\ lifetimeDownload' = <<>>
                ELSE /\ widgetCalls' = <<>>
                     /\ lifetimeDownload' = lifetimeDownload]_vars

CoverFetchDeliversOnceWitness ==
    /\ Live
    /\ ev.kind = "downloadFinished"
    /\ widgetCalls = << <<"setThumbnail", "d1">> >>
    /\ lifetimeDownload = <<>>
    /\ current = "d1"

\* C4: a Song playback stop disables the widget, clears metadata, empties
\* the media-view list and destroys the pending fetch; a setThumbnail call
\* is made only by a track-changed or unlock trigger or by a fetch that was
\* pending before the step, so none follows a stop until a new trigger.
StopClearsAndCancels ==
    [][/\ (ev'.kind = "stops" /\ ev'.type = type /\ "playStop" \in subs)
            => /\ widgetCalls' =
                    << <<"setEnabled", FALSE>>, <<"clearMetadata">> >>
               /\ cachedMediaView' = <<>>
               /\ lifetimeDownload' = <<>>
       /\ Called(widgetCalls', "setThumbnail")
            => \/ ev'.kind \in {"trackChanged", "lock"}
               \/ lifetimeDownload # <<>>]_vars

StopClearsAndCancelsWitness ==
    /\ Live
    /\ ev.kind = "stops"
    /\ ev.type = type
    /\ current = "d1"
    /\ "d1" \notin resolved
    /\ lifetimeDownload = <<>>

\* C5: at most one thumbnail fetch is pending, it is the fetch of the track
\* of the most recent metadata refresh, and every setThumbnail call
\* delivers the image of that track.
SingleFetchNoStaleThumbnail ==
    /\ Len(lifetimeDownload) <= 1
    /\ \A i \in 1..Len(lifetimeDownload) : lifetimeDownload[i] = lastRefresh
    /\ \A i \in 1..Len(widgetCalls) :
        widgetCalls[i][1] = "setThumbnail" => widgetCalls[i][2] = lastRefresh

SingleFetchWitness ==
    /\ Live
    /\ Len(cachedMediaView) = 2
    /\ lifetimeDownload = <<"d1">>
    /\ ev.kind = "trackChanged"

\* C6: a widget command makes exactly one player call, the one of its own
\* kind for the Song type, and no widget call.
CommandRouting ==
    (ev.kind = "command" /\ "command" \in subs) =>
        /\ widgetCalls = <<>>
        /\ Len(playerCalls) = 1
        /\ <<ev.arg, playerCalls[1]>> \in
            { <<"PlayPause", <<"playPause", "Song">> >>,
              <<"Play", <<"play", "Song">> >>,
              <<"Pause", <<"pause", "Song">> >>,
              <<"Next", <<"next", "Song">> >>,
              <<"Previous", <<"previous", "Song">> >>,
              <<"Stop", <<"stop", "Song">> >> }

CommandRoutingWitness ==
    /\ Live
    /\ ev.kind = "command"
    /\ ev.arg = "Next"
    /\ playerCalls = << <<"next", "Song">> >>

\* the outcome of a metadata refresh for the current track: artist, title,
\* then the thumbnail set, cleared or fetched
RefreshOutcome(calls) ==
    /\ calls =
        << <<"setArtist", composedName(current)[2]>>,
           <<"setTitle", composedName(current)[1]>>,
           IF current \in CoverDocs /\ current \in resolved
               THEN <<"setThumbnail", current>>
               ELSE <<"clearThumbnail">> >>
    /\ lifetimeDownload =
        IF current \in CoverDocs /\ current \notin resolved
            THEN <<current>> ELSE <<>>
    /\ lastRefresh = current

\* C7: an unlock with a current Song track runs, after setEnabled(true) and
\* updateDisplay, the same metadata refresh as a Song track change to that
\* track: previous fetch cancelled, artist and title pushed, thumbnail set,
\* cleared or fetched by the same rules.
UnlockRefreshesLikeTrackChange ==
    /\ (/\ ev.kind = "lock"
        /\ ~locked
        /\ current # NoTrack
        /\ "refresh" \in subs)
        => /\ Len(widgetCalls) = 5
           /\ SubSeq(widgetCalls, 1, 2) =
                << <<"setEnabled", TRUE>>, <<"updateDisplay">> >>
           /\ RefreshOutcome(SubSeq(widgetCalls, 3, 5))
    /\ (/\ ev.kind = "trackChanged"
        /\ ev.type = type
        /\ current # NoTrack
        /\ "refresh" \in subs)
        => RefreshOutcome(widgetCalls)

UnlockRefreshWitness ==
    /\ Live
    /\ ev.kind = "lock"
    /\ ~locked
    /\ current = "d1"
    /\ lifetimeDownload = <<"d1">>
    /\ Len(cachedMediaView) = 2

\* C8: without seeking support there is no seek subscription and
\* finishSeeking is never called; with it, a seek request with progress p
\* makes exactly the call finishSeeking(Song, p).
SeekRouting ==
    /\ ~seekingSupported
        => /\ "seek" \notin subs
           /\ ~Called(playerCalls, "finishSeeking")
    /\ (ev.kind = "seek" /\ seekingSupported /\ Live)
        => /\ playerCalls = << <<"finishSeeking", "Song", ev.num>> >>
           /\ widgetCalls = <<>>

SeekRoutingWitness ==
    /\ Live
    /\ seekingSupported
    /\ ev.kind = "seek"
    /\ ev.num = 1
    /\ playerCalls = << <<"finishSeeking", "Song", 1>> >>

\* C9: when the lock state is locked at subscription or becomes locked, the
\* widget gets setEnabled(false) if a session is active and no call at all
\* if none is.
LockDisables ==
    /\ (ev.kind = "lock" /\ locked /\ "lock" \in subs)
        => widgetCalls =
            IF ev.session THEN << <<"setEnabled", FALSE>> >> ELSE <<>>
    /\ (ev.kind = "construct" /\ inited /\ locked)
        => (ev.session <=>
                widgetCalls[Len(widgetCalls)] = <<"setEnabled", FALSE>>)

LockDisablesWitness ==
    /\ Live
    /\ ev.kind = "lock"
    /\ locked
    /\ ev.session
    /\ widgetCalls = << <<"setEnabled", FALSE>> >>
    /\ current = "d1"

\* C10: after destruction no subscription is left, the pending thumbnail
\* fetch included, and no event produces a widget call or a player call.
DestroyedInert ==
    ~alive =>
        /\ subs = {}
        /\ lifetimeDownload = <<>>
        /\ widgetCalls = <<>>
        /\ playerCalls = <<>>

DestroyedInertWitness ==
    /\ inited
    /\ ~alive
    /\ ev.kind = "downloadFinished"
    /\ current = "d1"
    /\ "d1" \in resolved

\* the events after which a pending fetch may be gone, without playback start
FetchEndListed ==
    \/ ev'.kind = "stops" /\ ev'.type = type
    \/ ev'.kind = "trackChanged" /\ ev'.type = type
    \/ ev'.kind = "lock" /\ ~locked'
    \/ ev'.kind = "downloadFinished" /\ Head(lifetimeDownload) \in resolved
    \/ ev'.kind = "destroy"

\* a pending fetch whose thumbnail is resolved delivers at the notification
FetchDelivers ==
    (/\ ev'.kind = "downloadFinished"
     /\ lifetimeDownload # <<>>
     /\ Head(lifetimeDownload) \in resolved)
        => widgetCalls' = << <<"setThumbnail", Head(lifetimeDownload)>> >>

\* C11 as stated: a pending fetch is destroyed only by a Song stop, a Song
\* track change, an unlock, its own resolution or destruction, and a fetch
\* resolved before any of these delivers its thumbnail.
FetchEndsOnlyAsListed ==
    [][/\ (lifetimeDownload # <<>> /\ lifetimeDownload' # lifetimeDownload)
            => FetchEndListed
       /\ FetchDelivers]_vars

\* C11 amended: a pending fetch is destroyed only by a Song stop, a Song
\* playback start, a Song track change, an unlock, its own resolution or
\* destruction; no player-state update and no event of another track type
\* cancels it, and a fetch resolved before any of these delivers.
FetchEndsOnlyAsListedOrStart ==
    [][/\ (lifetimeDownload # <<>> /\ lifetimeDownload' # lifetimeDownload)
            => \/ FetchEndListed
               \/ ev'.kind = "startsPlay" /\ ev'.type = type
       /\ FetchDelivers]_vars

FetchEndsWitness ==
    /\ Live
    /\ ev.kind = "startsPlay"
    /\ ev.type = type
    /\ current = "d1"
    /\ "d1" \notin resolved
    /\ cachedMediaView = <<"d1">>
    /\ lifetimeDownload = <<>>

\* C12: a Song playback start makes, in this order, setEnabled(true),
\* setIsNextEnabled and setIsPreviousEnabled with the player's values,
\* setIsPlayPauseEnabled(true), setIsStopEnabled(true),
\* setPlaybackStatus(Playing) and updateDisplay; it makes no clearMetadata
\* call, leaves the media-view list alone and destroys the pending fetch.
StartHandlerSequence ==
    [][(ev'.kind = "startsPlay" /\ ev'.type = type /\ "playStop" \in subs)
        => /\ widgetCalls' =
                << <<"setEnabled", TRUE>>,
                   <<"setIsNextEnabled", ev'.next>>,
                   <<"setIsPreviousEnabled", ev'.previous>>,
                   <<"setIsPlayPauseEnabled", TRUE>>,
                   <<"setIsStopEnabled", TRUE>>,
                   <<"setPlaybackStatus", "Playing">>,
                   <<"updateDisplay">> >>
           /\ cachedMediaView' = cachedMediaView
           /\ lifetimeDownload' = <<>>
           /\ wStatus' = "Playing"]_vars

StartHandlerWitness ==
    /\ Live
    /\ ev.kind = "startsPlay"
    /\ ev.type = type
    /\ ev.next
    /\ ~ev.previous
    /\ cachedMediaView = <<"d1", "d1">>
    /\ lifetimeDownload = <<>>

\* C13: on an unlock with a current track the first two widget calls are
\* setEnabled(true) and updateDisplay, and the artist, title and thumbnail
\* calls of the refresh come after them; a track change calls neither
\* setEnabled nor updateDisplay.
UnlockEnablesBeforeRefresh ==
    /\ (/\ ev.kind = "lock"
        /\ ~locked
        /\ current # NoTrack
        /\ "refresh" \in subs)
        => /\ Len(widgetCalls) > 2
           /\ widgetCalls[1] = <<"setEnabled", TRUE>>
           /\ widgetCalls[2] = <<"updateDisplay">>
           /\ Called(widgetCalls, "setArtist")
           /\ Called(widgetCalls, "setTitle")
           /\ \A i \in 1..Len(widgetCalls) :
                widgetCalls[i][1] \in {"setArtist", "setTitle",
                                       "setThumbnail", "clearThumbnail"}
                    => i > 2
    /\ ev.kind = "trackChanged"
        => /\ ~Called(widgetCalls, "setEnabled")
           /\ ~Called(widgetCalls, "updateDisplay")

UnlockEnablesWitness ==
    /\ Live
    /\ ev.kind = "lock"
    /\ ~locked
    /\ current = "d2"
    /\ Len(widgetCalls) = 5

\* C14: a Song track change that leaves no current track only cancels the
\* pending fetch and makes no widget call; an unlock with no current track
\* makes no widget call and leaves the pending fetch and the media-view
\* list alone.
NoTrackNoPush ==
    [][/\ (/\ ev'.kind = "trackChanged"
           /\ ev'.type = type
           /\ current' = NoTrack
           /\ "refresh" \in subs)
            => /\ widgetCalls' = <<>>
               /\ lifetimeDownload' = <<>>
               /\ cachedMediaView' = cachedMediaView
       /\ (ev'.kind = "lock" /\ ~locked' /\ current = NoTrack)
            => /\ widgetCalls' = <<>>
               /\ lifetimeDownload' = lifetimeDownload
               /\ cachedMediaView' = cachedMediaView]_vars

NoTrackNoPushWitness ==
    /\ Live
    /\ ev.kind = "trackChanged"
    /\ ev.type = type
    /\ current = NoTrack
    /\ lastRefresh = "d1"
    /\ cachedMediaView = <<"d1">>
    /\ lifetimeDownload = <<>>

\* C15: without seeking support setPosition and setDuration are never
\* called; with it, a Song update calls setPosition exactly when its
\* position differs from that of the previous Song update (or it is the
\* first), and setDuration likewise for its length, each independently of
\* the other and of the status; no other event calls them or changes what
\* the next update is compared with.
PositionDurationDedup ==
    [][/\ ~seekingSupported
            => /\ ~Called(widgetCalls', "setPosition")
               /\ ~Called(widgetCalls', "setDuration")
       /\ (ev'.kind = "update" /\ ev'.type = type /\ "position" \in subs)
            => /\ CallsOf(widgetCalls', "setPosition") =
                    IF positionLast # <<ev'.position>>
                        THEN << <<"setPosition", ev'.position>> >>
                        ELSE <<>>
               /\ positionLast' = <<ev'.position>>
       /\ (ev'.kind = "update" /\ ev'.type = type /\ "length" \in subs)
            => /\ CallsOf(widgetCalls', "setDuration") =
                    IF lengthLast # <<ev'.length>>
                        THEN << <<"setDuration", ev'.length>> >>
                        ELSE <<>>
               /\ lengthLast' = <<ev'.length>>
       /\ (ev'.kind # "update" \/ ev'.type # type)
            => /\ ~Called(widgetCalls', "setPosition")
               /\ ~Called(widgetCalls', "setDuration")
               /\ ev'.kind # "destroy"
                    => UNCHANGED <<positionLast, lengthLast>>]_vars

PositionDurationWitness ==
    /\ Live
    /\ seekingSupported
    /\ ev.kind = "update"
    /\ ev.type = type
    /\ ev.length = 2
    /\ widgetCalls = << <<"setDuration", 2>> >>

\* C16: a player-state update or a track change of another track type
\* makes no widget call, leaves the pending fetch and the media-view list
\* alone and changes nothing the deduplication of later Song updates reads,
\* so a Song update is still compared with the previous Song update.
OtherTypeIgnored ==
    [][/\ (ev'.kind \in {"update", "trackChanged"} /\ ev'.type # type)
            => /\ widgetCalls' = <<>>
               /\ UNCHANGED <<lifetimeDownload, cachedMediaView, statusLast,
                              positionLast, lengthLast, prevMapped, wStatus,
                              lastRefresh, current>>
       /\ StatusDedupStep]_vars

OtherTypeIgnoredWitness ==
    /\ Live
    /\ ev.kind = "update"
    /\ ev.type = "Voice"
    /\ lifetimeDownload = <<"d1">>
    /\ statusLast = <<"Paused">>
    /\ wStatus = "Paused"

\* C17 as stated: the media-view list never holds more than the handle of
\* the latest fetch.
CachedViewsAtMostLatest == Len(cachedMediaView) <= 1

\* C18 as stated: once the lock handler has disabled the widget, no event
\* calls setEnabled(true) until the application is unlocked.
LockedStaysDisabled ==
    lockDisabled =>
        ~\E i \in 1..Len(widgetCalls) :
            /\ widgetCalls[i][1] = "setEnabled"
            /\ widgetCalls[i][2] = TRUE

\* C19 as stated: after a Song update has been processed, the value most
\* recently given to setPlaybackStatus is the mapped status of that update.
StatusNeverLags ==
    (ev.kind = "update" /\ ev.type = type /\ "status" \in subs)
        => wStatus = MapStatus(ev.arg)

====
